---------------------------- MODULE Spec2Model ----------------------------
(***************************************************************************)
(* swyt: a daemon that terminates named processes outside their allowed    *)
(* day/time windows.  The model covers src/lib.rs (rule and configuration  *)
(* parsing, process_rules) and the main loop of src/main.rs.               *)
(*                                                                         *)
(* Text is a sequence of one-character strings, so that str::split,        *)
(* str::trim, u32::from_str and BufRead::lines are computed character by   *)
(* character, as the code does.  A NaiveTime is its number of seconds      *)
(* since midnight.                                                         *)
(***************************************************************************)
EXTENDS Integers, Sequences, FiniteSets, TLC

VARIABLES
    pc,                 \* position of main: "load_config", "load_rules",
                        \* "loop", "process_rules", "sleep", "exit", "panic"
    error,              \* the SwytError logged by fatal!, or "none"
    config_file,        \* content of config.jbb, or NoFile
    rules_file,         \* content of rules.jbb, or NoFile
    configuration,      \* main's `configuration`, None before load_config
    rules,              \* main's `rules` (the RuleStore), None before load_rules
    clock,              \* the local clock: index into Instants
    current_date_time,  \* process_rules' timestamp of the running pass
    table,              \* the OS process table: pid -> process name or NoProc
    processes,          \* process_rules' stream: pids still to be yielded
    last,               \* what process_rules did with the latest stream item
    kill_failed         \* pids whose terminate request failed in this pass

vars == <<pc, error, config_file, rules_file, configuration, rules, clock,
          current_date_time, table, processes, last, kill_failed>>

\* A missing file: no text, which is a sequence of characters, equals it.
NoFile == <<"NoFile">>
NoProc == <<"NoProc">>

\* A binding main has not made yet is None, one it has made is Some(v).
None == <<>>
Some(v) == <<v>>

DEFAULT_CHECK_INTERVAL == 60

----------------------------------------------------------------------------
(* Bounds of the model *)

MaxLines == 2
MaxConfigLines == 2
MaxPid == 2

----------------------------------------------------------------------------
(* Text helpers: the std library routines the parsers call *)

NL == "\n"
CR == "\r"

Digits == <<"0", "1", "2", "3", "4", "5", "6", "7", "8", "9">>

IsDigit(c) == \E d \in 1..10 : Digits[d] = c

DigitVal(c) == (CHOOSE d \in 1..10 : Digits[d] = c) - 1

\* str::split(sep) for a one-character separator: the pieces between
\* separators, in order; the empty text yields one empty piece.
RECURSIVE split(_, _)
split(s, sep) ==
    IF \A i \in 1..Len(s) : s[i] # sep
    THEN <<s>>
    ELSE LET i == CHOOSE k \in 1..Len(s) :
                      s[k] = sep /\ \A j \in 1..(k - 1) : s[j] # sep
         IN  <<SubSeq(s, 1, i - 1)>> \o split(SubSeq(s, i + 1, Len(s)), sep)

IsSpace(c) == c \in {" ", "\t", NL, CR}

\* str::trim: leading and trailing whitespace removed.
RECURSIVE trim(_)
trim(s) ==
    IF s = <<>> THEN s
    ELSE IF IsSpace(s[1]) THEN trim(Tail(s))
    ELSE IF IsSpace(s[Len(s)]) THEN trim(SubSeq(s, 1, Len(s) - 1))
    ELSE s

\* u32::MAX = 4294967295, digit by digit (a value wider than the model's
\* integers hold is compared as text).
U32MaxDigits == <<"4", "2", "9", "4", "9", "6", "7", "2", "9", "5">>

RECURSIVE strip_zeros(_)
strip_zeros(s) ==
    IF Len(s) > 1 /\ s[1] = "0" THEN strip_zeros(Tail(s)) ELSE s

\* s and t are digit texts of the same length: s denotes a larger number.
RECURSIVE digits_greater(_, _)
digits_greater(s, t) ==
    IF s = <<>> THEN FALSE
    ELSE IF s[1] # t[1] THEN DigitVal(s[1]) > DigitVal(t[1])
    ELSE digits_greater(Tail(s), Tail(t))

overflows_u32(ds) ==
    LET d == strip_zeros(ds)
    IN  Len(d) > 10 \/ (Len(d) = 10 /\ digits_greater(d, U32MaxDigits))

Ok(v) == [tag |-> "Ok", val |-> v]
Err(e) == [tag |-> e, val |-> <<>>]
IsOk(r) == r.tag = "Ok"
Panic == Err("panic")

RECURSIVE DecimalValue(_, _)
DecimalValue(s, acc) ==
    IF s = <<>> THEN acc
    ELSE DecimalValue(Tail(s), acc * 10 + DigitVal(s[1]))

u32_from_digits(body) ==
    IF body = <<>> \/ \E i \in 1..Len(body) : ~IsDigit(body[i])
    THEN Err("ParseIntError")
    ELSE IF overflows_u32(body) THEN Err("ParseIntError")
    ELSE Ok(DecimalValue(body, 0))

\* u32::from_str: an optional "+", then one or more decimal digits whose
\* value fits 32 bits; anything else is an error.
u32_from_str(s) ==
    u32_from_digits(IF s # <<>> /\ s[1] = "+" THEN Tail(s) ELSE s)

\* Iterator::collect::<Result<_, _>>: the first failure in order, else all
\* the values.
cons_ok(v, rest) == IF IsOk(rest) THEN Ok(<<v>> \o rest.val) ELSE rest

RECURSIVE collect(_)
collect(rs) ==
    IF rs = <<>> THEN Ok(<<>>)
    ELSE IF ~IsOk(rs[1]) THEN rs[1]
    ELSE cons_ok(rs[1].val, collect(Tail(rs)))

RECURSIVE flatten(_)
flatten(ss) == IF ss = <<>> THEN <<>> ELSE ss[1] \o flatten(Tail(ss))

drop_last_empty(pieces) ==
    IF pieces[Len(pieces)] = <<>>
    THEN SubSeq(pieces, 1, Len(pieces) - 1) ELSE pieces

strip_cr(l) ==
    IF l # <<>> /\ l[Len(l)] = CR THEN SubSeq(l, 1, Len(l) - 1) ELSE l

\* Every piece but the last was ended by a "\n"; only those lose a "\r".
strip_all(ls) ==
    [i \in 1..Len(ls) |-> IF i < Len(ls) THEN strip_cr(ls[i]) ELSE ls[i]]

\* lines, were the reader to pass over empty lines.
lines_skipping_blank(text) ==
    SelectSeq(drop_last_empty(strip_all(split(text, NL))), LAMBDA l : l # <<>>)

\* BufRead::lines: the text cut at each "\n" (a "\r" before it dropped);
\* a final piece is a line only if it is not empty.
lines(text) == drop_last_empty(strip_all(split(text, NL)))

\* The first two pieces of a split: the two `.next()` calls of a parser.
first_two(parts) == SubSeq(parts, 1, IF Len(parts) < 2 THEN Len(parts) ELSE 2)

----------------------------------------------------------------------------
(* Rule parsing: lib.rs parse_rule and below.  Each parser is written as   *)
(* the split it starts with, handed to an operator that reads the pieces   *)
(* in the order of the code's `?` operators.                               *)

\* NaiveTime::from_hms as seconds since midnight.
from_hms(h, m, s) == h * 3600 + m * 60 + s

parse_day_of_week(day_of_week) ==
    CASE day_of_week = <<"M", "O">> -> Ok("Mon")
      [] day_of_week = <<"T", "U">> -> Ok("Tue")
      [] day_of_week = <<"W", "E">> -> Ok("Wed")
      [] day_of_week = <<"T", "H">> -> Ok("Thu")
      [] day_of_week = <<"F", "R">> -> Ok("Fri")
      [] day_of_week = <<"S", "A">> -> Ok("Sat")
      [] day_of_week = <<"S", "U">> -> Ok("Sun")
      [] OTHER -> Err("RuleParseError")

day_results(parts) == [i \in 1..Len(parts) |-> parse_day_of_week(parts[i])]

\* collect::<Result<HashSet<Weekday>, _>>
to_set(r) == IF IsOk(r) THEN Ok({r.val[i] : i \in 1..Len(r.val)}) ELSE r

parse_days_of_week(days_of_week) ==
    to_set(collect(day_results(split(days_of_week, ","))))

\* hm: the results of u32::from_str on the hours and, if there is one, the
\* minutes piece.  NaiveTime::from_hms panics on an hour above 23 or a
\* minute above 59.
time_of(hm) ==
    IF ~IsOk(hm[1]) THEN Err("RuleParseError")
    ELSE IF Len(hm) < 2 THEN Err("RuleParseError")
    ELSE IF ~IsOk(hm[2]) THEN Err("RuleParseError")
    ELSE IF hm[1].val >= 24 \/ hm[2].val >= 60 THEN Panic
    ELSE Ok(from_hms(hm[1].val, hm[2].val, 0))

u32_results(parts) == [i \in 1..Len(parts) |-> u32_from_str(parts[i])]

parse_time(time) == time_of(u32_results(first_two(split(time, ":"))))

\* be: the results of parse_time on the begin and, if there is one, the
\* end piece.
begin_end(be) ==
    IF ~IsOk(be[1]) THEN be[1]
    ELSE IF Len(be) < 2 THEN Err("RuleParseError")
    ELSE IF ~IsOk(be[2]) THEN be[2]
    ELSE Ok(<<be[1].val, be[2].val>>)

time_results(parts) == [i \in 1..Len(parts) |-> parse_time(parts[i])]

parse_period_time(period_time) ==
    IF period_time = <<"*">>
    THEN Ok(<<from_hms(0, 0, 0), from_hms(23, 59, 59)>>)
    ELSE begin_end(time_results(first_two(split(period_time, "~"))))

slot_results(parts) == [i \in 1..Len(parts) |-> parse_period_time(parts[i])]

parse_period_times(period_times) ==
    collect(slot_results(split(period_times, ",")))

\* make_periods, were only the first slot of a time_spec kept.
make_periods_first_slot(start_ends, days_of_week) ==
    IF ~IsOk(start_ends) THEN start_ends
    ELSE IF ~IsOk(days_of_week) THEN days_of_week
    ELSE Ok(<<[days_of_week |-> days_of_week.val,
               begin_time |-> start_ends.val[1][1],
               end_time |-> start_ends.val[1][2]]>>)

make_periods(start_ends, days_of_week) ==
    IF ~IsOk(start_ends) THEN start_ends
    ELSE IF ~IsOk(days_of_week) THEN days_of_week
    ELSE Ok([i \in 1..Len(start_ends.val) |->
                [days_of_week |-> days_of_week.val,
                 begin_time |-> start_ends.val[i][1],
                 end_time |-> start_ends.val[i][2]]])

periods_of(parts) ==
    IF Len(parts) < 2 THEN Err("RuleParseError")
    ELSE make_periods(parse_period_times(parts[1]), parse_days_of_week(parts[2]))

parse_periods(period) == periods_of(split(period, ";"))

segment_results(parts) == [i \in 1..Len(parts) |-> parse_periods(parts[i])]

make_rule(process_name, periods) ==
    IF ~IsOk(periods) THEN periods
    ELSE Ok([process_name |-> process_name,
             allowed_periods |-> flatten(periods.val)])

rule_of(parts) ==
    IF Len(parts) < 2 THEN Err("RuleParseError")
    ELSE make_rule(parts[1], collect(segment_results(split(parts[2], "|"))))

parse_rule(rule) == rule_of(split(rule, "="))

----------------------------------------------------------------------------
(* The RuleStore: HashMap<String, Vec<Period>> as its set of entries *)

EmptyRules == {}

keys(store) == {e.process_name : e \in store}

\* HashMap::get: the values under key k (none or one).
get(store, k) == {e.allowed_periods : e \in {x \in store : x.process_name = k}}

\* insert, were the periods of a repeated name appended to those it has.
insert_merging(store, k, v) ==
    {e \in store : e.process_name # k}
        \cup {[process_name |-> k,
                allowed_periods |-> flatten([i \in 1..Cardinality(get(store, k)) |->
                                              CHOOSE ps \in get(store, k) : TRUE]) \o v]}

\* HashMap::insert: the entry of key k, if any, is replaced.
insert(store, k, v) ==
    {e \in store : e.process_name # k}
        \cup {[process_name |-> k, allowed_periods |-> v]}

RECURSIVE parse_rules_lines(_, _)

\* insert_rule, were a line that fails to parse passed over.
insert_rule_skipping(rule, rest, store) ==
    IF ~IsOk(rule) THEN parse_rules_lines(rest, store)
    ELSE parse_rules_lines(rest, insert(store, rule.val.process_name,
                                        rule.val.allowed_periods))

\* One turn of the loop: `let rule = parse_rule(&line?)?; rules.insert(..)`.
insert_rule(rule, rest, store) ==
    IF ~IsOk(rule) THEN rule
    ELSE parse_rules_lines(rest, insert(store, rule.val.process_name,
                                        rule.val.allowed_periods))

\* The `for line in reader.lines()` loop of parse_rules_file.
parse_rules_lines(ls, store) ==
    IF ls = <<>> THEN Ok(store)
    ELSE insert_rule(parse_rule(ls[1]), Tail(ls), store)

parse_rules_file(file) ==
    IF file = NoFile THEN Ok(EmptyRules)
    ELSE parse_rules_lines(lines(file), EmptyRules)

----------------------------------------------------------------------------
(* Configuration parsing *)

CheckIntervalKey ==
    <<"c", "h", "e", "c", "k", "_", "i", "n", "t", "e", "r", "v", "a", "l">>

DefaultConfiguration == [check_interval |-> DEFAULT_CHECK_INTERVAL]

\* unwrap_or_default, were the fallback u32's zero.
unwrap_or_zero(value) == IF IsOk(value) THEN value.val ELSE 0

\* u32::from_str(..).unwrap_or(DEFAULT_CHECK_INTERVAL)
unwrap_or_default(value) ==
    IF IsOk(value) THEN value.val ELSE DEFAULT_CHECK_INTERVAL

config_of(parts, config) ==
    IF Len(parts) < 2 THEN Err("ConfigParseError")
    ELSE IF trim(parts[1]) = CheckIntervalKey
    THEN Ok([check_interval |-> unwrap_or_default(u32_from_str(trim(parts[2])))])
    ELSE Ok(config)

parse_config_line(line, config) == config_of(split(line, "="), config)

RECURSIVE parse_config_lines(_, _)

\* One turn of the loop: `parse_config_line(line?, &mut config)?`.
next_config_line(r, rest) ==
    IF ~IsOk(r) THEN r ELSE parse_config_lines(rest, r.val)

\* The `for line in reader.lines()` loop of parse_config_file.
parse_config_lines(ls, config) ==
    IF ls = <<>> THEN Ok(config)
    ELSE next_config_line(parse_config_line(ls[1], config), Tail(ls))

parse_config_file(file) ==
    IF file = NoFile THEN Ok(DefaultConfiguration)
    ELSE parse_config_lines(lines(file), DefaultConfiguration)

\* File::create on a missing file leaves an empty file behind.
created(file) == IF file = NoFile THEN <<>> ELSE file

----------------------------------------------------------------------------
(* Rule files the model is run on.  A line is described by its structure   *)
(* (name, segments, slots, days, and which separators or fields are        *)
(* broken) and rendered to the text the loader reads.                      *)

T(h, m) == [h |-> h, m |-> m, bad |-> "none"]
BadHour(h, m) == [h |-> h, m |-> m, bad |-> "hour"]
BadMinute(h, m) == [h |-> h, m |-> m, bad |-> "minute"]

Star == [kind |-> "star", b |-> T(0, 0), e |-> T(0, 0)]
Range(b, e) == [kind |-> "range", b |-> b, e |-> e]
NoTilde(b) == [kind |-> "no_tilde", b |-> b, e |-> b]

Morning == Range(T(8, 0), T(10, 0))
Night == Range(T(22, 0), T(2, 30))
Hour25 == Range(T(25, 0), T(10, 0))
Minute60 == Range(T(8, 0), T(10, 60))

GoodSlots == {Star, Morning, Night}
BadSlots == {NoTilde(T(8, 0)), Range(BadHour(8, 0), T(10, 0)),
             Range(T(8, 0), BadMinute(10, 0))}
WideSlots == {Hour25, Minute60}

Weekdays == {"Mon", "Tue", "Wed", "Thu", "Fri", "Sat", "Sun"}

DayCode(d) ==
    CASE d = "Mon" -> <<"M", "O">>
      [] d = "Tue" -> <<"T", "U">>
      [] d = "Wed" -> <<"W", "E">>
      [] d = "Thu" -> <<"T", "H">>
      [] d = "Fri" -> <<"F", "R">>
      [] d = "Sat" -> <<"S", "A">>
      [] d = "Sun" -> <<"S", "U">>
      [] OTHER -> <<"X", "X">>

EveryDay == <<"Mon", "Tue", "Wed", "Thu", "Fri", "Sat", "Sun">>

DaySpecs == {<<"Mon">>, <<"Mon", "Tue">>, <<"Sat", "Sun">>, EveryDay,
             <<"Xxx">>, <<"Mon", "Xxx">>}

TimeSpecs ==
    {<<s>> : s \in GoodSlots \cup BadSlots \cup WideSlots}
        \cup {<<s, t>> : s \in GoodSlots,
                         t \in GoodSlots \cup {NoTilde(T(8, 0)), Hour25}}

Segment(slots, days) == [slots |-> slots, days |-> days, semi |-> TRUE]
NoSemicolon(slots) == [slots |-> slots, days |-> <<>>, semi |-> FALSE]

Segments ==
    {Segment(ts, ds) : ts \in TimeSpecs, ds \in DaySpecs}
        \cup {NoSemicolon(<<Morning>>)}

PairSegments ==
    {Segment(<<Morning>>, <<"Mon", "Tue">>), Segment(<<Star>>, <<"Sat", "Sun">>),
     Segment(<<Night, Morning>>, EveryDay), Segment(<<Morning>>, <<"Xxx">>)}

NameP == <<"p">>
NameQ == <<"q">>
NameR == <<"r">>

Line(name, segs) == [name |-> name, segs |-> segs, eq |-> TRUE]
NoEquals(name) == [name |-> name, segs |-> <<>>, eq |-> FALSE]
Blank == NoEquals(<<>>)

LineSet ==
    {Line(n, <<g>>) : n \in {NameP, NameQ}, g \in Segments}
        \cup {Line(NameP, <<g, h>>) : g \in PairSegments, h \in PairSegments}
        \cup {NoEquals(NameP), Blank}

\* The lines that files of several lines are made of.
CoreLines ==
    {Line(NameP, <<Segment(<<Morning>>, <<"Mon", "Tue">>),
                   Segment(<<Star>>, <<"Sat", "Sun">>)>>),
     Line(NameP, <<Segment(<<Night>>, EveryDay)>>),
     Line(NameQ, <<Segment(<<Night, Morning>>, <<"Mon">>)>>),
     Line(NameQ, <<Segment(<<Morning>>, <<"Xxx">>)>>),
     Line(NameQ, <<Segment(<<NoTilde(T(8, 0))>>, <<"Mon">>)>>),
     Line(NameP, <<Segment(<<Hour25>>, <<"Mon">>)>>),
     Blank}

Digits2(n) == <<Digits[(n \div 10) + 1], Digits[(n % 10) + 1]>>

RenderTime(t) ==
    (IF t.bad = "hour" THEN <<"x", "x">> ELSE Digits2(t.h))
        \o <<":">>
        \o (IF t.bad = "minute" THEN <<"x", "x">> ELSE Digits2(t.m))

RenderSlot(s) ==
    CASE s.kind = "star" -> <<"*">>
      [] s.kind = "range" -> RenderTime(s.b) \o <<"~">> \o RenderTime(s.e)
      [] s.kind = "no_tilde" -> RenderTime(s.b)

RECURSIVE Join(_, _)
Join(texts, sep) ==
    IF texts = <<>> THEN <<>>
    ELSE IF Len(texts) = 1 THEN texts[1]
    ELSE texts[1] \o <<sep>> \o Join(Tail(texts), sep)

RenderSegment(g) ==
    Join([i \in 1..Len(g.slots) |-> RenderSlot(g.slots[i])], ",")
        \o (IF g.semi
            THEN <<";">> \o Join([i \in 1..Len(g.days) |-> DayCode(g.days[i])], ",")
            ELSE <<>>)

RenderLine(l) ==
    l.name \o (IF l.eq
               THEN <<"=">> \o Join([i \in 1..Len(l.segs) |-> RenderSegment(l.segs[i])], "|")
               ELSE <<>>)

\* The file of the given lines; `terminated` says whether the last line
\* ends with a newline too.
RenderFile(ls, terminated) ==
    Join([i \in 1..Len(ls) |-> RenderLine(ls[i])], NL)
        \o (IF terminated /\ ls # <<>> THEN <<NL>> ELSE <<>>)

SeqsUpTo(S, n) == UNION {[1..k -> S] : k \in 0..n}

\* The same text with every line ended by "\r\n".
WithCrLf(text) ==
    flatten([i \in 1..Len(text) |->
                IF text[i] = NL THEN <<CR, NL>> ELSE <<text[i]>>])

RuleFiles ==
    {NoFile}
        \cup {RenderFile(<<l>>, t) : l \in LineSet, t \in BOOLEAN}
        \cup {RenderFile(ls, t) : ls \in SeqsUpTo(CoreLines, MaxLines), t \in BOOLEAN}
        \cup {WithCrLf(RenderFile(ls, TRUE)) : ls \in SeqsUpTo(CoreLines, MaxLines)}

----------------------------------------------------------------------------
(* main: loading the rules (main.rs 38-41) *)

Pids == 1..MaxPid

InitRules ==
    /\ pc = "load_rules"
    /\ error = "none"
    /\ config_file = <<>>
    /\ configuration = Some(DefaultConfiguration)
    /\ rules_file \in RuleFiles
    /\ rules = None
    /\ clock = 1
    /\ current_date_time = None
    /\ table = [p \in Pids |-> NoProc]
    /\ processes = <<>>
    /\ last = None
    /\ kill_failed = {}

rules_loaded(r) ==
    /\ IsOk(r)
    /\ rules' = Some(r.val)
    /\ rules_file' = created(rules_file)
    /\ pc' = "loop"
    /\ UNCHANGED <<error, config_file, configuration, clock, current_date_time,
                   table, processes, last, kill_failed>>

rules_fatal(r) ==
    /\ r.tag \notin {"Ok", "panic"}
    /\ error' = r.tag
    /\ pc' = "exit"
    /\ UNCHANGED <<config_file, rules_file, configuration, rules, clock,
                   current_date_time, table, processes, last, kill_failed>>

rules_panic(r) ==
    /\ r.tag = "panic"
    /\ pc' = "panic"
    /\ UNCHANGED <<error, config_file, rules_file, configuration, rules, clock,
                   current_date_time, table, processes, last, kill_failed>>

\* `let rules = match load_rules(..) { Ok(rules) => rules, .. }`
load_rules == pc = "load_rules" /\ rules_loaded(parse_rules_file(rules_file))

\* `Err(err) => fatal!("{}", err)`: logged, then exit(1)
load_rules_fatal == pc = "load_rules" /\ rules_fatal(parse_rules_file(rules_file))

\* NaiveTime::from_hms panicked inside load_rules
load_rules_panic == pc = "load_rules" /\ rules_panic(parse_rules_file(rules_file))

NextRules == load_rules \/ load_rules_fatal \/ load_rules_panic

SpecRules == InitRules /\ [][NextRules]_vars

----------------------------------------------------------------------------
(* Configuration files the model is run on: `key=value` lines described   *)
(* by their key, their value and the padding around both.                  *)

Number(n) == [kind |-> "number", n |-> n, text |-> <<>>]
Plus(n) == [kind |-> "plus", n |-> n, text |-> <<>>]
Word(t) == [kind |-> "word", n |-> 0, text |-> t]
\* Decimal digits of a number that does not fit 32 bits: 4294967296.
TooBig == [kind |-> "too_big", n |-> 0,
           text |-> <<"4", "2", "9", "4", "9", "6", "7", "2", "9", "6">>]

ConfigValues == {Number(120), Number(0), Number(7), Plus(5), TooBig,
                 Word(<<"a", "b", "c">>), Word(<<>>)}

OtherKey == <<"l", "o", "g">>

ConfigLine(key, value, pad) == [key |-> key, value |-> value, pad |-> pad, eq |-> TRUE]
ConfigNoEquals(key) == [key |-> key, value |-> Word(<<>>), pad |-> FALSE, eq |-> FALSE]

ConfigLineSet ==
    {ConfigLine(CheckIntervalKey, v, FALSE) : v \in ConfigValues}
        \cup {ConfigLine(CheckIntervalKey, v, TRUE) : v \in {Number(120), Word(<<>>)}}
        \cup {ConfigLine(OtherKey, v, FALSE) : v \in {Number(7), Word(<<"a", "b", "c">>)}}
        \cup {ConfigNoEquals(CheckIntervalKey), ConfigNoEquals(<<>>)}

RECURSIVE Decimal(_)
Decimal(n) ==
    IF n < 10 THEN <<Digits[n + 1]>>
    ELSE Decimal(n \div 10) \o <<Digits[(n % 10) + 1]>>

RenderValue(v) ==
    CASE v.kind = "number" -> Decimal(v.n)
      [] v.kind = "plus" -> <<"+">> \o Decimal(v.n)
      [] OTHER -> v.text

Padded(t, pad) == IF pad THEN <<" ">> \o t \o <<" ">> ELSE t

RenderConfigLine(l) ==
    IF l.eq
    THEN Padded(l.key, l.pad) \o <<"=">> \o Padded(RenderValue(l.value), l.pad)
    ELSE l.key

RenderConfigFile(ls, terminated) ==
    Join([i \in 1..Len(ls) |-> RenderConfigLine(ls[i])], NL)
        \o (IF terminated /\ ls # <<>> THEN <<NL>> ELSE <<>>)

ConfigFiles ==
    {NoFile}
        \cup {RenderConfigFile(ls, t) :
                ls \in SeqsUpTo(ConfigLineSet, MaxConfigLines), t \in BOOLEAN}

----------------------------------------------------------------------------
(* main: loading the configuration (main.rs 33-36) *)

InitConfig ==
    /\ pc = "load_config"
    /\ error = "none"
    /\ config_file \in ConfigFiles
    /\ configuration = None
    /\ rules_file = NoFile
    /\ rules = None
    /\ clock = 1
    /\ current_date_time = None
    /\ table = [p \in Pids |-> NoProc]
    /\ processes = <<>>
    /\ last = None
    /\ kill_failed = {}

config_loaded(r) ==
    /\ IsOk(r)
    /\ configuration' = Some(r.val)
    /\ config_file' = created(config_file)
    /\ pc' = "load_rules"
    /\ UNCHANGED <<error, rules_file, rules, clock, current_date_time,
                   table, processes, last, kill_failed>>

config_fatal(r) ==
    /\ ~IsOk(r)
    /\ error' = r.tag
    /\ pc' = "exit"
    /\ UNCHANGED <<config_file, rules_file, configuration, rules, clock,
                   current_date_time, table, processes, last, kill_failed>>

\* `let configuration = match load_config(..) { Ok(config) => config, .. }`
load_config == pc = "load_config" /\ config_loaded(parse_config_file(config_file))

\* `Err(err) => fatal!("{}", err)`
load_config_fatal == pc = "load_config" /\ config_fatal(parse_config_file(config_file))

NextConfig == load_config \/ load_config_fatal

SpecConfig == InitConfig /\ [][NextConfig]_vars

----------------------------------------------------------------------------
(* process_rules (lib.rs 78-103) and the loop of main (main.rs 43-48)      *)

\* The instants the local clock passes through, in order.
At(day, h, m, sec) == [weekday |-> day, time |-> from_hms(h, m, sec)]

Instants ==
    <<At("Mon", 7, 59, 59), At("Mon", 8, 0, 0), At("Mon", 10, 0, 0),
      At("Mon", 10, 0, 1), At("Mon", 23, 0, 0), At("Tue", 1, 0, 0),
      At("Wed", 9, 0, 0), At("Sat", 0, 0, 0), At("Sun", 23, 59, 59)>>

ProcNames == {NameP, NameQ, NameR}

\* period_matches, were the end bound exclusive.
period_matches_exclusive(p, dt) ==
    /\ dt.weekday \in p.days_of_week
    /\ dt.time >= p.begin_time
    /\ dt.time < p.end_time

\* period_matches, were a period that ends before it begins to run past
\* midnight.
period_matches_wrapping(p, dt) ==
    /\ dt.weekday \in p.days_of_week
    /\ IF p.begin_time <= p.end_time
       THEN dt.time >= p.begin_time /\ dt.time <= p.end_time
       ELSE dt.time >= p.begin_time \/ dt.time <= p.end_time

\* The closure of `periods.iter().any(..)`.
period_matches(p, dt) ==
    /\ dt.weekday \in p.days_of_week
    /\ dt.time >= p.begin_time
    /\ dt.time <= p.end_time

any_period_matches(periods, dt) ==
    \E i \in 1..Len(periods) : period_matches(periods[i], dt)

\* `if let Some(periods) = rules.get(&process_name) { if !periods.iter().any(..)`
must_kill(store, process_name, dt) ==
    \E periods \in get(store, process_name) : ~any_period_matches(periods, dt)

\* heim::process::processes(): the processes alive, by ascending pid.
RECURSIVE alive_from(_, _)
alive_from(t, pid) ==
    IF pid > MaxPid THEN <<>>
    ELSE (IF t[pid] = NoProc THEN <<>> ELSE <<pid>>) \o alive_from(t, pid + 1)

Handled(pid, name, outcome) == [pid |-> pid, name |-> name, outcome |-> outcome]

\* The rules and the configuration the daemon loop is run on.
DaemonRules ==
    <<Line(NameP, <<Segment(<<Morning>>, <<"Mon", "Tue">>),
                    Segment(<<Star>>, <<"Sat", "Sun">>)>>),
      Line(NameQ, <<Segment(<<Night>>, EveryDay)>>)>>

DaemonRuleFiles ==
    {NoFile, RenderFile(DaemonRules, TRUE),
     RenderFile(<<Line(NameQ, <<Segment(<<Morning>>, <<"Xxx">>)>>)>>, TRUE),
     RenderFile(<<Line(NameP, <<Segment(<<Hour25>>, <<"Mon">>)>>)>>, TRUE)}

DaemonConfigFiles ==
    {NoFile, RenderConfigFile(<<ConfigNoEquals(CheckIntervalKey)>>, TRUE)}

Init ==
    /\ pc = "load_config"
    /\ error = "none"
    /\ config_file \in DaemonConfigFiles
    /\ configuration = None
    /\ rules_file \in DaemonRuleFiles
    /\ rules = None
    /\ clock = 1
    /\ current_date_time = None
    /\ table \in [Pids -> ProcNames \cup {NoProc}]
    /\ processes = <<>>
    /\ last = None
    /\ kill_failed = {}

\* process_rules is entered: `Local::now()` and `processes()`.
start_pass ==
    /\ pc = "loop"
    /\ current_date_time' = Some(Instants[clock])
    /\ processes' = alive_from(table, 1)
    /\ last' = None
    /\ kill_failed' = {}
    /\ pc' = "process_rules"
    /\ UNCHANGED <<error, config_file, rules_file, configuration, rules, clock, table>>

\* `if let Ok(process) = process_result` fails: the item is passed over.
stream_error ==
    /\ pc = "process_rules"
    /\ processes # <<>>
    /\ last' = Some(Handled(Head(processes), <<>>, "stream_err"))
    /\ processes' = Tail(processes)
    /\ UNCHANGED <<pc, error, config_file, rules_file, configuration, rules, clock,
                   current_date_time, table, kill_failed>>

\* `process.name()` fails: `?` returns Err(ProcessFetchError) from
\* process_rules, and main's `fatal!` logs it and exits.
name_error ==
    /\ pc = "process_rules"
    /\ processes # <<>>
    /\ last' = Some(Handled(Head(processes), <<>>, "name_err"))
    /\ error' = "ProcessFetchError"
    /\ pc' = "exit"
    /\ UNCHANGED <<config_file, rules_file, configuration, rules, clock,
                   current_date_time, table, processes, kill_failed>>

\* The name is fetched and the process is not to be killed.
leave_alone ==
    /\ pc = "process_rules"
    /\ processes # <<>>
    /\ ~must_kill(rules[1], table[Head(processes)], current_date_time[1])
    /\ last' = Some(Handled(Head(processes), table[Head(processes)], "left"))
    /\ processes' = Tail(processes)
    /\ UNCHANGED <<pc, error, config_file, rules_file, configuration, rules, clock,
                   current_date_time, table, kill_failed>>

\* The name is fetched, `process.kill()` is called and succeeds.
kill_ok ==
    /\ pc = "process_rules"
    /\ processes # <<>>
    /\ must_kill(rules[1], table[Head(processes)], current_date_time[1])
    /\ last' = Some(Handled(Head(processes), table[Head(processes)], "killed"))
    /\ table' = [table EXCEPT ![Head(processes)] = NoProc]
    /\ processes' = Tail(processes)
    /\ UNCHANGED <<pc, error, config_file, rules_file, configuration, rules, clock,
                   current_date_time, kill_failed>>

\* `process.kill()` is called and fails: `let _ =` drops the error.
kill_error ==
    /\ pc = "process_rules"
    /\ processes # <<>>
    /\ must_kill(rules[1], table[Head(processes)], current_date_time[1])
    /\ last' = Some(Handled(Head(processes), table[Head(processes)], "kill_failed"))
    /\ kill_failed' = kill_failed \cup {Head(processes)}
    /\ processes' = Tail(processes)
    /\ UNCHANGED <<pc, error, config_file, rules_file, configuration, rules, clock,
                   current_date_time, table>>

\* The stream is exhausted: process_rules returns Ok(()).
end_pass ==
    /\ pc = "process_rules"
    /\ processes = <<>>
    /\ pc' = "sleep"
    /\ UNCHANGED <<error, config_file, rules_file, configuration, rules, clock,
                   current_date_time, table, processes, last, kill_failed>>

\* `std::thread::sleep(Duration::from_secs(configuration.check_interval()))`
sleep ==
    /\ pc = "sleep"
    /\ configuration[1].check_interval >= 0
    /\ pc' = "loop"
    /\ UNCHANGED <<error, config_file, rules_file, configuration, rules, clock,
                   current_date_time, table, processes, last, kill_failed>>

\* Time passes while the daemon runs.
tick ==
    /\ pc \in {"loop", "process_rules", "sleep"}
    /\ clock < Len(Instants)
    /\ clock' = clock + 1
    /\ UNCHANGED <<pc, error, config_file, rules_file, configuration, rules,
                   current_date_time, table, processes, last, kill_failed>>

\* A process is started while the daemon sleeps.
spawn ==
    /\ pc = "sleep"
    /\ \E pid \in Pids, name \in ProcNames :
          /\ table[pid] = NoProc
          /\ table' = [table EXCEPT ![pid] = name]
    /\ UNCHANGED <<pc, error, config_file, rules_file, configuration, rules, clock,
                   current_date_time, processes, last, kill_failed>>

Next ==
    \/ load_config
    \/ load_config_fatal
    \/ load_rules
    \/ load_rules_fatal
    \/ load_rules_panic
    \/ start_pass
    \/ stream_error
    \/ name_error
    \/ leave_alone
    \/ kill_ok
    \/ kill_error
    \/ end_pass
    \/ sleep
    \/ tick
    \/ spawn

Spec == Init /\ [][Next]_vars

----------------------------------------------------------------------------
(* What a rules file declares, read off the structure of its lines *)

KnownLines == LineSet \cup CoreLines

RenderedLines == {[line |-> l, text |-> RenderLine(l)] : l \in KnownLines}

LineOf(text) == (CHOOSE r \in RenderedLines : r.text = text).line

LinesOf(texts) == [i \in 1..Len(texts) |-> LineOf(texts[i])]

FileLines(file) == IF file = NoFile THEN <<>> ELSE LinesOf(lines(file))

TimeInRange(t) == t.h < 24 /\ t.m < 60
TimeValid(t) == t.bad = "none" /\ TimeInRange(t)

SlotValid(sl) ==
    \/ sl.kind = "star"
    \/ sl.kind = "range" /\ TimeValid(sl.b) /\ TimeValid(sl.e)

SegmentValid(g) ==
    /\ g.semi
    /\ \A i \in 1..Len(g.slots) : SlotValid(g.slots[i])
    /\ g.days # <<>>
    /\ \A i \in 1..Len(g.days) : g.days[i] \in Weekdays

\* The line follows the grammar and its times are times of day.
Valid(l) ==
    /\ l.eq
    /\ l.segs # <<>>
    /\ \A i \in 1..Len(l.segs) : SegmentValid(l.segs[i])

SlotMalformed(sl) ==
    sl.kind = "no_tilde" \/ sl.b.bad # "none" \/ sl.e.bad # "none"

SegmentMalformed(g) ==
    \/ ~g.semi
    \/ \E i \in 1..Len(g.slots) : SlotMalformed(g.slots[i])
    \/ \E i \in 1..Len(g.days) : g.days[i] \notin Weekdays

\* The line lacks `=`, `;` or `~`, or has a non-numeric hour or minute, or
\* an unrecognized day code.
Malformed(l) == ~l.eq \/ \E i \in 1..Len(l.segs) : SegmentMalformed(l.segs[i])

\* Every hour of the line is below 24 and every minute below 60.
InRange(l) ==
    \A i \in 1..Len(l.segs) : \A j \in 1..Len(l.segs[i].slots) :
        TimeInRange(l.segs[i].slots[j].b) /\ TimeInRange(l.segs[i].slots[j].e)

Seconds(t) == t.h * 3600 + t.m * 60

SlotPeriod(sl, days) ==
    [days_of_week |-> {days[i] : i \in 1..Len(days)},
     begin_time |-> IF sl.kind = "star" THEN 0 ELSE Seconds(sl.b),
     end_time |-> IF sl.kind = "star" THEN 23 * 3600 + 59 * 60 + 59 ELSE Seconds(sl.e)]

SegmentPeriods(g) == [i \in 1..Len(g.slots) |-> SlotPeriod(g.slots[i], g.days)]

RECURSIVE ExpectedFrom(_, _)
ExpectedFrom(segs, i) ==
    IF i > Len(segs) THEN <<>>
    ELSE SegmentPeriods(segs[i]) \o ExpectedFrom(segs, i + 1)

\* One Period per slot, in segment order then slot order.
ExpectedPeriods(l) == ExpectedFrom(l.segs, 1)

\* Line i is the last line of the file with its process name.
LastOfName(ls, i) == \A j \in (i + 1)..Len(ls) : ls[j].name # ls[i].name

RulesLoadDone == pc \notin {"load_config", "load_rules"} /\ configuration # None

AllValid(ls) == \A i \in 1..Len(ls) : Valid(ls[i])

\* Some line is malformed, and no hour or minute read before it is out of
\* range.
MalformedFirst(ls) ==
    \E i \in 1..Len(ls) : Malformed(ls[i]) /\ \A j \in 1..i : InRange(ls[j])

FailedToParse == pc = "exit" /\ error = "RuleParseError" /\ rules = None

EntriesAsDeclared(store, ls) ==
    \A i \in 1..Len(ls) :
        LastOfName(ls, i) => get(store, ls[i].name) = {ExpectedPeriods(ls[i])}

\* C5: a file of valid lines loads, and the periods stored for a line are
\* one Period per slot, in segment then slot order, each with the days of
\* its own segment, seconds 0, and 00:00:00-23:59:59 for `*`.
C5_PeriodPerSlot ==
    (RulesLoadDone /\ AllValid(FileLines(rules_file)))
        => (rules # None /\ EntriesAsDeclared(rules[1], FileLines(rules_file)))

TwoSlotsAndStar(l) ==
    /\ Len(l.segs) = 2
    /\ \E i \in 1..2 : Len(l.segs[i].slots) = 2
    /\ \E i \in 1..2 : l.segs[i].slots[1].kind = "star"

C5_Witness ==
    /\ rules # None
    /\ \E i \in 1..Len(FileLines(rules_file)) :
          TwoSlotsAndStar(FileLines(rules_file)[i])

TextName(text) == split(text, "=")[1]

LastTextOfName(ts, i) ==
    \A j \in (i + 1)..Len(ts) : TextName(ts[j]) # TextName(ts[i])

OneEntryPerName(store) ==
    \A k \in keys(store) : Cardinality({e \in store : e.process_name = k}) = 1

LastLineStored(store, ts) ==
    /\ keys(store) = {TextName(ts[i]) : i \in 1..Len(ts)}
    /\ \A i \in 1..Len(ts) :
          LastTextOfName(ts, i)
              => get(store, TextName(ts[i])) = {parse_rule(ts[i]).val.allowed_periods}

\* C7: the loaded RuleStore has one entry per process name of the file,
\* holding exactly the periods of the last line with that name.
C7_LastLineWins ==
    rules # None
        => (OneEntryPerName(rules[1]) /\ LastLineStored(rules[1], lines(rules_file)))

C7_Witness ==
    /\ rules # None
    /\ Len(lines(rules_file)) = 2
    /\ TextName(lines(rules_file)[1]) = TextName(lines(rules_file)[2])
    /\ lines(rules_file)[1] # lines(rules_file)[2]

\* The text has an empty line: it starts with a newline or has two in a row.
HasBlankLine(text) ==
    /\ text # NoFile
    /\ text # <<>>
    /\ \/ text[1] = NL
       \/ \E i \in 1..(Len(text) - 1) : text[i] = NL /\ text[i + 1] = NL

OthersValid(ls) == \A i \in 1..Len(ls) : ls[i] # Blank => Valid(ls[i])

NonBlank(ls) == SelectSeq(ls, LAMBDA l : l # Blank)

\* C9 as claimed: a file of valid lines and empty lines loads, and gives
\* the RuleStore of the file without the empty lines.
C9_BlankLinesIgnored ==
    (/\ RulesLoadDone
     /\ HasBlankLine(rules_file)
     /\ OthersValid(FileLines(rules_file))
     /\ NonBlank(FileLines(rules_file)) # <<>>)
        => rules = Some(parse_rules_file(
                            RenderFile(NonBlank(FileLines(rules_file)), TRUE)).val)

\* C9 as amended: an empty line among valid lines fails the load with
\* RuleParseError, and main gets no RuleStore.
C9_BlankLineFailsLoad ==
    (RulesLoadDone /\ HasBlankLine(rules_file) /\ OthersValid(FileLines(rules_file)))
        => FailedToParse

C9_Witness ==
    /\ FailedToParse
    /\ HasBlankLine(rules_file)
    /\ rules_file[1] # NL
    /\ OthersValid(FileLines(rules_file))

----------------------------------------------------------------------------
(* What a configuration file declares *)

RenderedConfigLines ==
    {[line |-> l, text |-> RenderConfigLine(l)] : l \in ConfigLineSet}

ConfigLineOf(text) == (CHOOSE r \in RenderedConfigLines : r.text = text).line

ConfigLinesOf(texts) == [i \in 1..Len(texts) |-> ConfigLineOf(texts[i])]

ConfigFileLines(file) == IF file = NoFile THEN <<>> ELSE ConfigLinesOf(lines(file))

IntervalLines(ls) == {i \in 1..Len(ls) : ls[i].key = CheckIntervalKey}

Largest(S) == CHOOSE i \in S : \A j \in S : j <= i

DeclaredValue(v) == IF v.kind \in {"number", "plus"} THEN v.n ELSE 60

DeclaredInterval(ls) ==
    IF IntervalLines(ls) = {} THEN 60
    ELSE DeclaredValue(ls[Largest(IntervalLines(ls))].value)

\* Every line is `key=value`, and no check_interval value exceeds 32 bits.
KeyValueLines(ls) ==
    \A i \in 1..Len(ls) : ls[i].eq /\ ls[i].value.kind # "too_big"

\* C6: a configuration file of key=value lines loads without error;
\* check_interval is the number of its last check_interval line, 60 if
\* that value is not a number or no line has the key; other keys change
\* nothing.
C6_CheckInterval ==
    (pc # "load_config" /\ KeyValueLines(ConfigFileLines(config_file)))
        => /\ pc # "exit"
           /\ configuration =
                  Some([check_interval |-> DeclaredInterval(ConfigFileLines(config_file))])

C6_Witness ==
    /\ configuration = Some([check_interval |-> 120])
    /\ Len(ConfigFileLines(config_file)) = 2
    /\ ConfigFileLines(config_file)[1].value = Number(120)
    /\ ConfigFileLines(config_file)[2].key = OtherKey

\* C8 as claimed: a loaded check_interval is at least one second.
C8_PositiveInterval ==
    configuration # None => configuration[1].check_interval >= 1

----------------------------------------------------------------------------
(* What a pass does to the processes it evaluates *)

Evaluated == last # None /\ last[1].outcome \in {"left", "killed", "kill_failed"}

Requested == last # None /\ last[1].outcome \in {"killed", "kill_failed"}

Covers(p, dt) ==
    dt.weekday \in p.days_of_week /\ p.begin_time <= dt.time /\ dt.time <= p.end_time

Denied(store, name, dt) ==
    \E e \in store :
        /\ e.process_name = name
        /\ \A i \in 1..Len(e.allowed_periods) : ~Covers(e.allowed_periods[i], dt)

\* C1: a process whose name was fetched gets a terminate request exactly
\* when its name has an entry in the RuleStore none of whose periods
\* covers the timestamp taken at the start of the pass.
C1_TerminateIffDenied ==
    Evaluated => (Requested <=> Denied(rules[1], last[1].name, current_date_time[1]))

C1_Witness ==
    /\ Requested
    /\ last[1].name = NameP
    /\ current_date_time[1] = At("Mon", 10, 0, 1)
    /\ Instants[clock] # current_date_time[1]

Inverted(e) ==
    \A i \in 1..Len(e.allowed_periods) :
        e.allowed_periods[i].begin_time > e.allowed_periods[i].end_time

HasInvertedSlot(l) ==
    \E i \in 1..Len(l.segs) : \E j \in 1..Len(l.segs[i].slots) :
        /\ l.segs[i].slots[j].kind = "range"
        /\ Seconds(l.segs[i].slots[j].b) > Seconds(l.segs[i].slots[j].e)

InvertedAsDeclared(store, ls) ==
    \A i \in 1..Len(ls) :
        (Valid(ls[i]) /\ HasInvertedSlot(ls[i]) /\ LastOfName(ls, i))
            => get(store, ls[i].name) = {ExpectedPeriods(ls[i])}

\* C10: a slot with begin after end is stored as written, and a process
\* all of whose periods are such gets a terminate request whenever it is
\* evaluated, at any weekday and time.
C10_InvertedNeverMatches ==
    /\ rules # None => InvertedAsDeclared(rules[1], FileLines(rules_file))
    /\ (Evaluated /\ \E e \in rules[1] : e.process_name = last[1].name /\ Inverted(e))
           => Requested

C10_Witness ==
    /\ Requested
    /\ last[1].name = NameQ
    /\ current_date_time[1] = At("Mon", 23, 0, 0)

Running == pc \in {"loop", "process_rules", "sleep"} /\ error = "none"

\* C2 as claimed: after the name of a process could not be fetched, the
\* pass goes on and the daemon keeps running.
C2_FetchFailureSkipped ==
    (last # None /\ last[1].outcome = "name_err") => Running

\* C3 as claimed: a pass in which a terminate request failed runs to its
\* end, and the daemon keeps running.
C3_KillFailureNonFatal == kill_failed # {} => Running

=============================================================================
